---- MODULE Spec2Model ----
(***************************************************************************)
(* State-machine model of the pyawsutils scripts: the EC2, VPC, S3-bucket  *)
(* and Lambda listers, the SSM public-sharing script and the S3 version    *)
(* sweeper (s3_valkyrie).  One run of one script is one behaviour: Init    *)
(* picks the script and its command line / module constants, the actions   *)
(* are the steps of the script's __main__ block and of its main().         *)
(* The remote API, the credential store, the terminal and the file system  *)
(* are the environment: each call into them picks its outcome with \E.     *)
(***************************************************************************)
EXTENDS Naturals, Integers, Sequences, FiniteSets, Bags, TLC

VARIABLES
    prog,        \* which script runs: "ec2", "vpc", "s3", "lambda", "ssm", "sweep"
    pc,          \* position of the run in the script
    log,         \* bag of the records handed to logging.*
    remote,      \* bag of the calls made on boto3 clients and paginators, with their outcome
    \* ---- s3_valkyrie.py
    DRY_RUN,     \* module constant DRY_RUN
    S3_BUCKETS,  \* module constant S3_BUCKETS: sequence of <<bucket, prefix>>
    user_input,  \* what input() returned at the prompt (NotPrompted: never called)
    deleted,     \* main's dict deleted: [objects, markers]
    unit,        \* index in S3_BUCKETS of the (bucket, prefix) of the for loop
    page,        \* the page being processed: [Versions, DeleteMarkers]
    vi,          \* index of the next entry of page['Versions']
    mi,          \* index of the next entry of page['DeleteMarkers']
    listed,      \* entries the pages delivered so far: [objects, markers]
    \* ---- the listers and ssm_disable_public_doc.py
    profiles,    \* main's parameter profiles
    regions,     \* the regions of the inner loop (args.regions, or the fixed tuple)
    outfile,     \* main's parameter outfile ("" : none given, Lambda lister only)
    outputformat, \* args.outputformat: "CSV" or "JSON"
    dry_run,     \* args.dry_run
    pidx,        \* index in profiles of the profile of the outer loop
    ridx,        \* index in regions of the region of the inner loop
    acct_num,    \* main's variable acct_num
    context,     \* the context (profile) in progress: "clean", "lookup_failed"
                 \* once its account lookup failed, "listed_after_failure"
                 \* once a listing call followed that in the same context
    found,       \* the result collection (instances_found, vpcs_found,
                 \* buckets_found: an insertion-ordered dict; functions: a list)
    returned,    \* the <<native id, account, region>> of every record a listing
                 \* call has returned
    fs,          \* the output file: [opens, exists, doc]
    console,     \* what print() wrote, in order
    \* ---- format_table_data, called on its own
    max_width,   \* parameter max_width
    wrap,        \* parameter wrap
    column,      \* the column of the field: its share of max_width, in tenths
    text,        \* the field's value, a sequence of characters
    cell         \* the field as format_table_data put it in the row

sweepVars == <<DRY_RUN, S3_BUCKETS, user_input, deleted, unit, page, vi, mi, listed>>
argVars == <<regions, outfile, outputformat, dry_run>>
loopVars == <<profiles, pidx, ridx, acct_num, context>>
outVars == <<fs, console>>
listVars == <<argVars, loopVars, found, returned, outVars>>
tableVars == <<max_width, wrap, column, text, cell>>
vars == <<prog, pc, log, remote, sweepVars, listVars, tableVars>>

(***************************************************************************)
(* Bounds of the model.                                                    *)
(***************************************************************************)
MaxUnits == 2      \* entries of S3_BUCKETS
MaxPages == 2      \* pages the listing calls of one run deliver
MaxItems == 1      \* entries of one kind on one page
MaxProfiles == 2   \* profiles of one run
MaxRegions == 2    \* regions given with --regions
MaxLen == 4        \* characters of a field handed to format_table_data
MaxWidth == 16     \* columns of the terminal

(***************************************************************************)
(* Logging and the remote API (the observable effects of a run).           *)
(***************************************************************************)
\* A log record: its level, its message (without the interpolated values),
\* and the values interpolated in it.
LogRecord(level, msg, n, m, items) ==
    [level |-> level, msg |-> msg, n |-> n, m |-> m, items |-> items]

AddLog(bag, level, msg, n, m, items) ==
    bag (+) SetToBag({LogRecord(level, msg, n, m, items)})

Logged(level, msg, n, m, items) == AddLog(log, level, msg, n, m, items)

\* Number of log records with this level and message, whatever their values.
LogCount(level, msg) ==
    LET hits == {r \in BagToSet(log) : r.level = level /\ r.msg = msg}
        RECURSIVE Sum(_)
        Sum(S) == IF S = {} THEN 0
                  ELSE LET r == CHOOSE x \in S : TRUE
                       IN  CopiesIn(r, log) + Sum(S \ {r})
    IN  Sum(hits)

\* A call on a boto3 client or paginator: the operation, what it was applied
\* to, and whether it returned (ok) or raised.
Call(op, kind, ok) == [op |-> op, kind |-> kind, ok |-> ok]

AddCall(bag, op, kind, ok) == bag (+) SetToBag({Call(op, kind, ok)})

Called(op, kind, ok) == AddCall(remote, op, kind, ok)

CallCount(op, kind, ok) == CopiesIn(Call(op, kind, ok), remote)

\* The loops of the listers note a record once: the model keeps which log
\* records and calls the cells of the grid produced, not how many of each
\* (the pages delivered are counted).
Note(bag, rec) == IF BagIn(rec, bag) THEN bag ELSE bag (+) SetToBag({rec})

NoteLog(bag, level, msg) == Note(bag, LogRecord(level, msg, 0, 0, <<>>))

NoteLogged(level, msg) == NoteLog(log, level, msg)

NoteCall(bag, op, kind, ok) == Note(bag, Call(op, kind, ok))

NoteCalled(op, kind, ok) == NoteCall(remote, op, kind, ok)

(***************************************************************************)
(* s3_valkyrie.py                                                          *)
(***************************************************************************)
BucketNames == <<"bucket-a", "bucket-b", "bucket-c", "bucket-d">>

\* The values S3_BUCKETS may be edited to: one to MaxUnits (bucket, prefix) pairs.
BucketLists ==
    {[i \in 1..k |-> <<BucketNames[i], IF i = 1 THEN "" ELSE "logs/">>] : k \in 1..MaxUnits}

\* A page of list_object_versions: nv versions and nm delete markers.
Page(nv, nm) == [Versions |-> [i \in 1..nv |-> i], DeleteMarkers |-> [i \in 1..nm |-> i]]

NoPage == Page(0, 0)

\* The value of user_input before input() has been called.
NotPrompted == "<not prompted>"

Sweep_Init ==
    /\ prog = "sweep"
    /\ pc = "confirm"
    /\ DRY_RUN \in BOOLEAN
    /\ S3_BUCKETS \in BucketLists
    /\ user_input = NotPrompted
    /\ deleted = [objects |-> 0, markers |-> 0]
    /\ unit = 1
    /\ page = NoPage
    /\ vi = 1
    /\ mi = 1
    /\ listed = [objects |-> 0, markers |-> 0]

\* What the user may type at the prompt; input() strips the newline only.
UserInputs == {"yes", "no", "YES", "yes ", "y", ""}

\* A gate that compares the answer without regard to case.
confirm_destruction_via_valkyrie_anycase ==
    /\ prog = "sweep"
    /\ pc = "confirm"
    /\ \/ /\ DRY_RUN
          /\ pc' = "main"
          /\ UNCHANGED user_input
       \/ /\ ~DRY_RUN
          /\ \E answer \in UserInputs :
                /\ user_input' = answer
                /\ pc' = IF answer \in {"yes", "YES"} THEN "main" ELSE "cancelled"
       \/ /\ ~DRY_RUN
          /\ pc' = "raised"
          /\ UNCHANGED user_input
    /\ UNCHANGED <<prog, tableVars, log, remote, DRY_RUN, S3_BUCKETS, deleted, unit, page, vi, mi,
                   listed, listVars>>

\* confirm_destruction_via_valkyrie, lines 80-102, and the __main__ block,
\* lines 105-109: with DRY_RUN the gate returns True at once; without, it
\* prompts, and main runs when the answer is 'yes'.  input() raises EOFError
\* when standard input is closed, which ends the program.
confirm_destruction_via_valkyrie ==
    /\ prog = "sweep"
    /\ pc = "confirm"
    /\ \/ /\ DRY_RUN
          /\ pc' = "main"
          /\ UNCHANGED user_input
       \/ /\ ~DRY_RUN
          /\ \E answer \in UserInputs :
                /\ user_input' = answer
                /\ pc' = IF answer = "yes" THEN "main" ELSE "cancelled"
       \/ /\ ~DRY_RUN
          /\ pc' = "raised"
          /\ UNCHANGED user_input
    /\ UNCHANGED <<prog, tableVars, log, remote, DRY_RUN, S3_BUCKETS, deleted, unit, page, vi, mi,
                   listed, listVars>>

\* main, lines 27-30: the counters, the session and the S3 client.  Neither
\* call is guarded: a missing profile or region raises out of main.
Sweep_Session ==
    /\ prog = "sweep"
    /\ pc = "main"
    /\ \/ /\ remote' = Called("Session", "pigs", FALSE)
          /\ pc' = "raised"
       \/ /\ remote' = AddCall(Called("Session", "pigs", TRUE), "client", "s3", FALSE)
          /\ pc' = "raised"
       \/ /\ remote' = AddCall(Called("Session", "pigs", TRUE), "client", "s3", TRUE)
          /\ pc' = "unit"
    /\ deleted' = [objects |-> 0, markers |-> 0]
    /\ UNCHANGED <<prog, tableVars, log, DRY_RUN, S3_BUCKETS, user_input, unit, page, vi, mi, listed, listVars>>

\* main, lines 32-40: the next (bucket, prefix), its paginator and
\* paginator.paginate(), whose failure is logged and ends this unit.
Sweep_Paginate ==
    /\ prog = "sweep"
    /\ pc = "unit"
    /\ unit <= Len(S3_BUCKETS)
    /\ \E ok \in BOOLEAN :
          /\ remote' = Called("paginate", "unit", ok)
          /\ IF ok
             THEN /\ pc' = "page"
                  /\ UNCHANGED <<log, unit>>
             ELSE /\ log' = Logged("error", "Well, that failed", 0, 0, <<>>)
                  /\ unit' = unit + 1
                  /\ UNCHANGED pc
    /\ UNCHANGED <<prog, tableVars, DRY_RUN, S3_BUCKETS, user_input, deleted, page, vi, mi, listed, listVars>>

\* A page loop without the try of line 42: an error of the iterator leaves main.
Sweep_NextPage_uncaught ==
    /\ prog = "sweep"
    /\ pc = "page"
    /\ \/ /\ CallCount("list_object_versions", "page", TRUE) < MaxPages
          /\ \E nv \in 0..MaxItems, nm \in 0..MaxItems :
                /\ page' = Page(nv, nm)
                /\ listed' = [objects |-> listed.objects + nv,
                              markers |-> listed.markers + nm]
          /\ remote' = Called("list_object_versions", "page", TRUE)
          /\ vi' = 1
          /\ mi' = 1
          /\ pc' = "versions"
          /\ UNCHANGED <<log, unit>>
       \/ /\ remote' = Called("list_object_versions", "page", FALSE)
          /\ pc' = "raised"
          /\ UNCHANGED <<log, unit, page, vi, mi, listed>>
       \/ /\ unit' = unit + 1
          /\ pc' = "unit"
          /\ UNCHANGED <<log, remote, page, vi, mi, listed>>
    /\ UNCHANGED <<prog, tableVars, DRY_RUN, S3_BUCKETS, user_input, deleted, listVars>>

\* main, lines 42-43 and 74-75: the page_iterator is asked for its next
\* page.  It delivers one, is exhausted, or raises; the raise is caught by
\* the except of line 74, logged, and ends this unit.
Sweep_NextPage ==
    /\ prog = "sweep"
    /\ pc = "page"
    /\ \/ /\ CallCount("list_object_versions", "page", TRUE) < MaxPages
          /\ \E nv \in 0..MaxItems, nm \in 0..MaxItems :
                /\ page' = Page(nv, nm)
                /\ listed' = [objects |-> listed.objects + nv,
                              markers |-> listed.markers + nm]
          /\ remote' = Called("list_object_versions", "page", TRUE)
          /\ vi' = 1
          /\ mi' = 1
          /\ pc' = "versions"
          /\ UNCHANGED <<log, unit>>
       \/ /\ remote' = Called("list_object_versions", "page", FALSE)
          /\ log' = Logged("error", "Well, that's busted", 0, 0, <<>>)
          /\ unit' = unit + 1
          /\ pc' = "unit"
          /\ UNCHANGED <<page, vi, mi, listed>>
       \/ /\ unit' = unit + 1
          /\ pc' = "unit"
          /\ UNCHANGED <<log, remote, page, vi, mi, listed>>
    /\ UNCHANGED <<prog, tableVars, DRY_RUN, S3_BUCKETS, user_input, deleted, listVars>>

\* A version loop that counts the deletion before it is confirmed: the
\* counter goes up whether delete_object returns or raises.
Sweep_Version_countsAttempts ==
    /\ prog = "sweep"
    /\ pc = "versions"
    /\ vi <= Len(page.Versions)
    /\ IF DRY_RUN
       THEN /\ log' = Logged("info", "DRY_RUN: Would have deleted", 0, 0,
                             <<S3_BUCKETS[unit][1]>>)
            /\ UNCHANGED <<remote, deleted>>
       ELSE \E ok \in BOOLEAN :
              /\ remote' = Called("delete_object", "version", ok)
              /\ deleted' = [deleted EXCEPT !.objects = @ + 1]
              /\ log' = IF ok
                        THEN Logged("info", "Deleted", 0, 0, <<S3_BUCKETS[unit][1]>>)
                        ELSE Logged("error", "Well, tried to delete", 0, 0,
                                    <<S3_BUCKETS[unit][1]>>)
    /\ vi' = vi + 1
    /\ UNCHANGED <<prog, tableVars, pc, DRY_RUN, S3_BUCKETS, user_input, unit, page, mi, listed, listVars>>

\* main, lines 44-54: one entry of page['Versions'].
Sweep_Version ==
    /\ prog = "sweep"
    /\ pc = "versions"
    /\ vi <= Len(page.Versions)
    /\ IF DRY_RUN
       THEN /\ log' = Logged("info", "DRY_RUN: Would have deleted", 0, 0,
                             <<S3_BUCKETS[unit][1]>>)
            /\ UNCHANGED <<remote, deleted>>
       ELSE \E ok \in BOOLEAN :
              /\ remote' = Called("delete_object", "version", ok)
              /\ IF ok
                 THEN /\ deleted' = [deleted EXCEPT !.objects = @ + 1]
                      /\ log' = Logged("info", "Deleted", 0, 0, <<S3_BUCKETS[unit][1]>>)
                 ELSE /\ log' = Logged("error", "Well, tried to delete", 0, 0,
                                       <<S3_BUCKETS[unit][1]>>)
                      /\ UNCHANGED deleted
    /\ vi' = vi + 1
    /\ UNCHANGED <<prog, tableVars, pc, DRY_RUN, S3_BUCKETS, user_input, unit, page, mi, listed, listVars>>

\* A marker loop that does not consult DRY_RUN.
Sweep_Marker_ignoresDryRun ==
    /\ prog = "sweep"
    /\ pc = "versions"
    /\ vi > Len(page.Versions)
    /\ mi <= Len(page.DeleteMarkers)
    /\ \E ok \in BOOLEAN :
          /\ remote' = Called("delete_object", "marker", ok)
          /\ IF ok
             THEN /\ deleted' = [deleted EXCEPT !.markers = @ + 1]
                  /\ log' = Logged("info", "Removed marker", 0, 0, <<S3_BUCKETS[unit][1]>>)
             ELSE /\ log' = Logged("error", "Error deleting delete marker", 0, 0,
                                   <<S3_BUCKETS[unit][1]>>)
                  /\ UNCHANGED deleted
    /\ mi' = mi + 1
    /\ UNCHANGED <<prog, tableVars, pc, DRY_RUN, S3_BUCKETS, user_input, unit, page, vi, listed, listVars>>

\* main, lines 56-69: one entry of page['DeleteMarkers'], after the versions.
Sweep_Marker ==
    /\ prog = "sweep"
    /\ pc = "versions"
    /\ vi > Len(page.Versions)
    /\ mi <= Len(page.DeleteMarkers)
    /\ IF DRY_RUN
       THEN /\ log' = Logged("info", "DRY_RUN: Would have removed delete marker", 0, 0,
                             <<S3_BUCKETS[unit][1]>>)
            /\ UNCHANGED <<remote, deleted>>
       ELSE \E ok \in BOOLEAN :
              /\ remote' = Called("delete_object", "marker", ok)
              /\ IF ok
                 THEN /\ deleted' = [deleted EXCEPT !.markers = @ + 1]
                      /\ log' = Logged("info", "Removed marker", 0, 0,
                                       <<S3_BUCKETS[unit][1]>>)
                 ELSE /\ log' = Logged("error", "Error deleting delete marker", 0, 0,
                                       <<S3_BUCKETS[unit][1]>>)
                      /\ UNCHANGED deleted
    /\ mi' = mi + 1
    /\ UNCHANGED <<prog, tableVars, pc, DRY_RUN, S3_BUCKETS, user_input, unit, page, vi, listed, listVars>>

\* main, lines 71-72: the end of the page's body, then back to the iterator.
Sweep_EndPage ==
    /\ prog = "sweep"
    /\ pc = "versions"
    /\ vi > Len(page.Versions)
    /\ mi > Len(page.DeleteMarkers)
    /\ log' = IF page.Versions = <<>> /\ page.DeleteMarkers = <<>>
              THEN Logged("info", "No deletable objects found", 0, 0,
                          <<S3_BUCKETS[unit][1]>>)
              ELSE log
    /\ pc' = "page"
    /\ UNCHANGED <<prog, tableVars, remote, sweepVars, listVars>>

\* main, line 77: after the last unit, the summary.
Sweep_Summary ==
    /\ prog = "sweep"
    /\ pc = "unit"
    /\ unit > Len(S3_BUCKETS)
    /\ log' = Logged("info", "Deleted objects and removed delete markers",
                     deleted.objects, deleted.markers, <<>>)
    /\ pc' = "done"
    /\ UNCHANGED <<prog, tableVars, remote, sweepVars, listVars>>

(***************************************************************************)
(* The listers: what the command line and the environment can hold.        *)
(***************************************************************************)
VALID_REGIONS == {"us-east-1", "us-east-2", "us-west-1", "us-west-2",
                  "ca-central-1", "eu-west-1", "eu-west-2", "eu-central-1"}

\* Region names a user may type: two valid ones and two that are not.
RegionNames == {"us-east-1", "us-west-2", "mars-1", "moon-2"}

\* --regions takes one or more names (nargs="+"); here no name is given twice.
RegionLists ==
    {rs \in UNION {[1..k -> RegionNames] : k \in 1..MaxRegions} :
        \A i, j \in DOMAIN rs : rs[i] = rs[j] => i = j}

ProfileNames == <<"dev", "prod", "audit", "stage">>

\* --profile given 0 to MaxProfiles times; also what available_profiles holds.
ProfileLists == {[i \in 1..k |-> ProfileNames[i]] : k \in 0..MaxProfiles}

\* The account get_caller_identity answers with under each profile.
AccountOf(profile) ==
    IF profile \in {"dev", "stage"} THEN "111111111111" ELSE "222222222222"

\* Python's None.
PyNone == "<None>"

\* Python orders str by code point; the strings main sorts, in that order.
StringOrder ==
    <<"", "111111111111", "222222222222", "N/A",
      "bucket-a", "bucket-b", "ca-central-1",
      "i-0a1",
      "i-0a1_111111111111_us-east-1", "i-0a1_111111111111_us-west-2",
      "i-0a1_222222222222_us-east-1", "i-0a1_222222222222_us-west-2",
      "i-0b2",
      "i-0b2_111111111111_us-east-1", "i-0b2_111111111111_us-west-2",
      "i-0b2_222222222222_us-east-1", "i-0b2_222222222222_us-west-2",
      "us-east-1", "us-east-1a", "us-east-2", "us-west-2", "us-west-2b",
      "vpc-0a1", "vpc-0b2">>

Rank(str) == CHOOSE i \in 1..Len(StringOrder) : StringOrder[i] = str

\* a < b for tuples of str, as Python compares tuples.
RECURSIVE TupleLess(_, _)
TupleLess(a, b) ==
    IF a = <<>> THEN b # <<>>
    ELSE IF b = <<>> THEN FALSE
    ELSE IF Head(a) = Head(b) THEN TupleLess(Tail(a), Tail(b))
    ELSE Rank(Head(a)) < Rank(Head(b))

(***************************************************************************)
(* A Python dict, which keeps its keys in insertion order: a sequence of   *)
(* [key, value], no key twice.                                             *)
(***************************************************************************)
DictKeys(d) == {d[i].key : i \in 1..Len(d)}

DictGet(d, k) == (CHOOSE e \in {d[i] : i \in 1..Len(d)} : e.key = k).value

\* d[k] = v: an existing key keeps its place, a new key goes last.
DictSet(d, k, v) ==
    IF k \in DictKeys(d)
    THEN [i \in 1..Len(d) |-> IF d[i].key = k THEN [key |-> k, value |-> v] ELSE d[i]]
    ELSE Append(d, [key |-> k, value |-> v])

\* sorted(d): the keys in str order.
SortedKeys(d) ==
    SortSeq([i \in 1..Len(d) |-> d[i].key], LAMBDA a, b : Rank(a) < Rank(b))

(***************************************************************************)
(* The steps all listers share (each lister's file holds its own copy).    *)
(***************************************************************************)
NoFile == [opens |-> 0, exists |-> FALSE, doc |-> <<>>]

\* What a lister's variables hold before its __main__ block has run.
Lister_Init ==
    /\ pc = "start"
    /\ profiles \in ProfileLists
    /\ pidx = 1
    /\ ridx = 1
    /\ acct_num = PyNone
    /\ context = "clean"
    /\ found = <<>>
    /\ returned = {}
    /\ fs = NoFile
    /\ console = <<>>

\* The sweeper's variables in a lister's run.
Sweep_Idle ==
    /\ DRY_RUN = TRUE
    /\ S3_BUCKETS = <<>>
    /\ user_input = NotPrompted
    /\ deleted = [objects |-> 0, markers |-> 0]
    /\ unit = 1
    /\ page = NoPage
    /\ vi = 1
    /\ mi = 1
    /\ listed = [objects |-> 0, markers |-> 0]

\* The listers' variables in the sweeper's run.
Lister_Idle ==
    /\ profiles = <<>>
    /\ regions = <<>>
    /\ outfile = ""
    /\ outputformat = "CSV"
    /\ dry_run = FALSE
    /\ pidx = 1
    /\ ridx = 1
    /\ acct_num = PyNone
    /\ context = "clean"
    /\ found = <<>>
    /\ returned = {}
    /\ fs = NoFile
    /\ console = <<>>

\* A validator that reports the first invalid region only.
invalid_regions_first(requested) ==
    LET bad == SelectSeq(requested, LAMBDA r : r \notin VALID_REGIONS)
    IN  IF bad = <<>> THEN <<>> ELSE <<bad[1]>>

\* invalid_regions = [r for r in args.regions if r not in VALID_REGIONS]
invalid_regions(requested) == SelectSeq(requested, LAMBDA r : r \notin VALID_REGIONS)

\* validate_output_path: sys.exit(1) when the path is a directory or its
\* parent is missing or not writable; the file system decides.
validate_output_path ==
    /\ prog \in {"ec2", "vpc", "s3", "lambda"}
    /\ pc = "validate_output_path"
    /\ \/ /\ log' = Logged("error", "Output path is not usable", 0, 0, <<outfile>>)
          /\ pc' = "exit1"
       \/ /\ pc' = "main"
          /\ UNCHANGED log
    /\ UNCHANGED <<prog, tableVars, remote, sweepVars, listVars>>

\* get_caller_identity raised in the context in progress.
AccountLookupFails == context' = IF context = "clean" THEN "lookup_failed" ELSE context

\* A listing call is made in the context in progress.
ListingCalled == context' = IF context = "lookup_failed" THEN "listed_after_failure" ELSE context

\* The end of the inner loop's body: the next region, or the next profile.
NextRegion ==
    IF ridx < Len(regions)
    THEN /\ ridx' = ridx + 1
         /\ pc' = "region"
         /\ UNCHANGED pidx
    ELSE /\ ridx' = 1
         /\ pidx' = pidx + 1
         /\ pc' = "profile"

\* The first lines of the outer loop's body in the EC2, VPC and SSM scripts:
\* the session, whose failure is caught, and (not in SSM) the sts client,
\* which is created outside any try.
Lister_Session(withSts) ==
    /\ pc = "profile"
    /\ pidx <= Len(profiles)
    /\ LET l1 == NoteLogged("info", "Processing profile")
       IN  \/ /\ remote' = NoteCalled("Session", "profile", FALSE)
              /\ log' = NoteLog(l1, "error", "Failed to create session for profile")
              /\ pidx' = pidx + 1
              /\ UNCHANGED <<pc, ridx>>
           \/ /\ withSts
              /\ remote' = NoteCall(NoteCalled("Session", "profile", TRUE),
                                   "client", "sts", FALSE)
              /\ log' = l1
              /\ pc' = "raised"
              /\ UNCHANGED <<pidx, ridx>>
           \/ /\ remote' = IF withSts
                           THEN NoteCall(NoteCalled("Session", "profile", TRUE),
                                        "client", "sts", TRUE)
                           ELSE NoteCalled("Session", "profile", TRUE)
              /\ log' = l1
              /\ pc' = "region"
              /\ ridx' = 1
              /\ UNCHANGED pidx
    /\ context' = "clean"
    /\ UNCHANGED <<prog, tableVars, sweepVars, argVars, profiles, acct_num, found, returned, outVars>>

\* if not profiles: profiles = boto3.session.Session().available_profiles
ResolveProfiles ==
    IF profiles = <<>>
    THEN profiles' \in ProfileLists
    ELSE UNCHANGED profiles

(***************************************************************************)
(* list_ec2_instances.py                                                   *)
(***************************************************************************)
\* Instances describe_instances may return: one with every optional field,
\* one with none of them.
Instances ==
    { [InstanceId |-> "i-0a1", InstanceType |-> "t3.micro",
       State |-> [Name |-> "running"],
       Tags |-> <<[Key |-> "env", Value |-> "prod"], [Key |-> "Name", Value |-> "web"]>>,
       Placement |-> [AvailabilityZone |-> "us-east-1a"],
       PrivateIpAddress |-> "10.0.0.5", PublicIpAddress |-> "3.3.3.3",
       VpcId |-> "vpc-0a1", SubnetId |-> "subnet-1",
       NetworkInterfaces |-> <<[NetworkInterfaceId |-> "eni-1",
                                PrivateIpAddress |-> "10.0.0.5",
                                Ipv6Addresses |-> <<>>,
                                VpcId |-> "vpc-0a1", SubnetId |-> "subnet-1"]>>],
      [InstanceId |-> "i-0b2", InstanceType |-> "t3.nano",
       State |-> [Name |-> "stopped"],
       NetworkInterfaces |-> <<>>] }

\* The instances of one page, reservations flattened.
InstancePages == UNION {[1..k -> Instances] : k \in 0..MaxItems}

\* d.get(field, default)
Get(d, field, default) == IF field \in DOMAIN d THEN d[field] ELSE default

\* Lines 62-67: the value of the first tag whose key is 'Name', else 'N/A'.
instance_name(inst) ==
    IF "Tags" \notin DOMAIN inst THEN "N/A"
    ELSE LET named == SelectSeq(inst.Tags, LAMBDA tag : tag.Key = "Name")
         IN  IF named = <<>> THEN "N/A" ELSE named[1].Value

\* Lines 69-76: the dict enis.
RECURSIVE enis(_)
enis(interfaces) ==
    IF interfaces = <<>> THEN <<>>
    ELSE LET eni == interfaces[Len(interfaces)]
         IN  DictSet(enis(SubSeq(interfaces, 1, Len(interfaces) - 1)),
                     eni.NetworkInterfaceId,
                     [PrivateIpAddress |-> eni.PrivateIpAddress,
                      Ipv6Addresses |-> eni.Ipv6Addresses,
                      VpcId |-> eni.VpcId,
                      SubnetId |-> eni.SubnetId])

\* Line 78: key = f"{inst['InstanceId']}_{acct_num}_{region}"
EC2_key(InstanceId, acct, region) == InstanceId \o "_" \o acct \o "_" \o region

\* Lines 79-91: the record stored under the key.
EC2_record(inst, acct) ==
    [instance_id |-> inst.InstanceId,
     instance_name |-> instance_name(inst),
     account |-> acct,
     type |-> inst.InstanceType,
     state |-> inst.State.Name,
     az |-> Get(Get(inst, "Placement", <<>>), "AvailabilityZone", "N/A"),
     privateipv4 |-> Get(inst, "PrivateIpAddress", "N/A"),
     publicipv4 |-> Get(inst, "PublicIpAddress", PyNone),
     vpc |-> Get(inst, "VpcId", "N/A"),
     subnet |-> Get(inst, "SubnetId", "N/A"),
     enis |-> enis(inst.NetworkInterfaces)]

\* Lines 60-91 for the instances of one page, in order.
RECURSIVE EC2_store(_, _, _, _)
EC2_store(d, insts, acct, region) ==
    IF insts = <<>> THEN d
    ELSE EC2_store(DictSet(d, EC2_key(Head(insts).InstanceId, acct, region),
                           EC2_record(Head(insts), acct)),
                   Tail(insts), acct, region)

EC2_Init ==
    /\ prog = "ec2"
    /\ Lister_Init
    /\ regions \in RegionLists
    /\ outfile = "ec2_instances.out"
    /\ outputformat \in {"CSV", "JSON"}
    /\ dry_run \in BOOLEAN

\* __main__, lines 242-254: the regions are checked before anything else.
EC2_Start ==
    /\ prog = "ec2"
    /\ pc = "start"
    /\ IF invalid_regions(regions) # <<>>
       THEN /\ log' = Logged("error", "Invalid region(s) specified", 0, 0,
                             invalid_regions(regions))
            /\ pc' = "exit1"
       ELSE /\ pc' = "validate_output_path"
            /\ UNCHANGED log
    /\ UNCHANGED <<prog, tableVars, remote, sweepVars, listVars>>

\* main, lines 25-30.
EC2_Main ==
    /\ prog = "ec2"
    /\ pc = "main"
    /\ found' = <<>>
    /\ log' = Logged("info", "Checking regions", 0, 0, regions)
    /\ ResolveProfiles
    /\ pidx' = 1
    /\ pc' = "profile"
    /\ UNCHANGED <<prog, tableVars, remote, sweepVars, argVars, context, ridx, acct_num, returned, outVars>>

\* main, lines 32-39.
EC2_Session ==
    /\ prog = "ec2"
    /\ Lister_Session(TRUE)

\* main, lines 41-57: the EC2 client, the account number and the paginator of
\* one (profile, region); each has its own try, and a failure goes on to the
\* next region.
EC2_Cell ==
    /\ prog = "ec2"
    /\ pc = "region"
    /\ \/ /\ remote' = NoteCalled("client", "ec2", FALSE)
          /\ log' = NoteLogged("error", "Cannot query EC2 instances in")
          /\ NextRegion
          /\ UNCHANGED <<acct_num, context>>
       \/ /\ remote' = NoteCall(NoteCalled("client", "ec2", TRUE),
                               "get_caller_identity", "sts", FALSE)
          /\ log' = NoteLogged("error", "Failed to get account ID for profile")
          /\ AccountLookupFails
          /\ NextRegion
          /\ UNCHANGED acct_num
       \/ /\ remote' = NoteCall(NoteCall(NoteCalled("client", "ec2", TRUE),
                                       "get_caller_identity", "sts", TRUE),
                               "get_paginator", "describe_instances", FALSE)
          /\ acct_num' = AccountOf(profiles[pidx])
          /\ log' = NoteLogged("error", "exception")
          /\ NextRegion
          /\ UNCHANGED context
       \/ /\ remote' = NoteCall(NoteCall(NoteCalled("client", "ec2", TRUE),
                                       "get_caller_identity", "sts", TRUE),
                               "get_paginator", "describe_instances", TRUE)
          /\ acct_num' = AccountOf(profiles[pidx])
          /\ ListingCalled
          /\ pc' = "pages"
          /\ UNCHANGED <<log, pidx, ridx>>
    /\ UNCHANGED <<prog, tableVars, sweepVars, argVars, profiles, found, returned, outVars>>

\* main, lines 59-91: paginator.paginate() is asked for its next page, in the
\* else branch of the try of line 54.  A page's instances are stored; the
\* end of the pages goes on to the next region; an error raised by the
\* listing call is caught nowhere.
EC2_NextPage ==
    /\ prog = "ec2"
    /\ pc = "pages"
    /\ \/ /\ CallCount("describe_instances", "page", TRUE) < MaxPages
          /\ \E insts \in InstancePages :
                /\ found' = EC2_store(found, insts, acct_num, regions[ridx])
                /\ returned' = returned \cup
                      {<<insts[i].InstanceId, acct_num, regions[ridx]>> : i \in 1..Len(insts)}
          /\ remote' = Called("describe_instances", "page", TRUE)
          /\ UNCHANGED <<pc, pidx, ridx>>
       \/ /\ NextRegion
          /\ UNCHANGED <<remote, found, returned>>
       \/ /\ remote' = NoteCalled("describe_instances", "page", FALSE)
          /\ pc' = "raised"
          /\ UNCHANGED <<pidx, ridx, found, returned>>
    /\ UNCHANGED <<prog, tableVars, log, sweepVars, argVars, context, profiles, acct_num, outVars>>

\* The CSV rows of lines 113-126: the instances sorted by
\* (account, az, instance_id).
EC2_csv(d) ==
    LET values == [i \in 1..Len(d) |-> d[i].value]
        rows == SortSeq(values, LAMBDA x, y :
                    TupleLess(<<x.account, x.az, x.instance_id>>,
                              <<y.account, y.az, y.instance_id>>))
    IN  rows

(***************************************************************************)
(* list_vpcs.py                                                            *)
(***************************************************************************)
VPC_regions == <<"us-east-1", "us-east-2", "us-west-2", "ca-central-1">>

\* VPCs describe_vpcs may return.
Vpcs ==
    { [VpcId |-> "vpc-0a1", CidrBlock |-> "10.0.0.0/16",
       Ipv6CidrBlockAssociationSet |-> <<[Ipv6CidrBlock |-> "2600:1f18::/56"]>>,
       CidrBlockAssociationSet |->
           <<[AssociationId |-> "vpc-cidr-assoc-1", CidrBlock |-> "10.0.0.0/16"]>>],
      [VpcId |-> "vpc-0b2", CidrBlock |-> "172.31.0.0/16",
       CidrBlockAssociationSet |->
           <<[AssociationId |-> "vpc-cidr-assoc-2", CidrBlock |-> "172.31.0.0/16"]>>] }

VpcLists == UNION {[1..k -> Vpcs] : k \in 0..MaxItems}

\* Lines 63-66: the dict of the VPC's CIDR associations.
RECURSIVE cidrassociations(_)
cidrassociations(assocs) ==
    IF assocs = <<>> THEN <<>>
    ELSE DictSet(cidrassociations(SubSeq(assocs, 1, Len(assocs) - 1)),
                 assocs[Len(assocs)].AssociationId, assocs[Len(assocs)].CidrBlock)

\* Lines 50-66: the record stored under vpc['VpcId'].
VPC_record(vpc, acct, region) ==
    [account_id |-> acct,
     region |-> region,
     cidr |-> vpc.CidrBlock,
     cidr6 |-> IF "Ipv6CidrBlockAssociationSet" \in DOMAIN vpc
                  /\ Len(vpc.Ipv6CidrBlockAssociationSet) > 0
               THEN Get(vpc.Ipv6CidrBlockAssociationSet[1], "Ipv6CidrBlock", PyNone)
               ELSE "",
     cidrassociations |-> cidrassociations(vpc.CidrBlockAssociationSet)]

\* Line 50: the key is vpc['VpcId'].
VPC_key(VpcId, acct, region) == VpcId

RECURSIVE VPC_store(_, _, _, _)
VPC_store(d, vpcs, acct, region) ==
    IF vpcs = <<>> THEN d
    ELSE VPC_store(DictSet(d, VPC_key(Head(vpcs).VpcId, acct, region),
                           VPC_record(Head(vpcs), acct, region)),
                   Tail(vpcs), acct, region)

VPC_Init ==
    /\ prog = "vpc"
    /\ Lister_Init
    /\ regions = VPC_regions
    /\ outfile = "vpc_list.out"
    /\ outputformat \in {"CSV", "JSON"}
    /\ dry_run \in BOOLEAN

\* main, lines 26-33.
VPC_Session ==
    /\ prog = "vpc"
    /\ Lister_Session(TRUE)

\* describe_vpcs and list_buckets are not paginated: the distinct records one
\* run is given are capped instead, to keep the collection bounded.
WithinCap(new) == Cardinality(returned \cup new) <= MaxPages

\* main, lines 35-66: one (profile, region).  The EC2 client is created
\* outside any try; the account number and describe_vpcs have their own.
VPC_Cell ==
    /\ prog = "vpc"
    /\ pc = "region"
    /\ \/ /\ remote' = NoteCalled("client", "ec2", FALSE)
          /\ pc' = "raised"
          /\ UNCHANGED <<log, pidx, ridx, acct_num, context, found, returned>>
       \/ /\ remote' = NoteCall(NoteCalled("client", "ec2", TRUE),
                               "get_caller_identity", "sts", FALSE)
          /\ log' = NoteLogged("error", "Failed to get account ID for profile")
          /\ AccountLookupFails
          /\ NextRegion
          /\ UNCHANGED <<acct_num, found, returned>>
       \/ /\ remote' = NoteCall(NoteCall(NoteCalled("client", "ec2", TRUE),
                                       "get_caller_identity", "sts", TRUE),
                               "describe_vpcs", "region", FALSE)
          /\ acct_num' = AccountOf(profiles[pidx])
          /\ log' = NoteLogged("error", "Failed to describe VPCs in region")
          /\ ListingCalled
          /\ NextRegion
          /\ UNCHANGED <<found, returned>>
       \/ /\ remote' = NoteCall(NoteCall(NoteCalled("client", "ec2", TRUE),
                                       "get_caller_identity", "sts", TRUE),
                               "describe_vpcs", "region", TRUE)
          /\ acct_num' = AccountOf(profiles[pidx])
          /\ \E vpcs \in VpcLists :
                LET new == {<<vpcs[i].VpcId, acct_num', regions[ridx]>> : i \in 1..Len(vpcs)}
                IN  /\ WithinCap(new)
                    /\ returned' = returned \cup new
                    /\ found' = VPC_store(found, vpcs, acct_num', regions[ridx])
          /\ ListingCalled
          /\ NextRegion
          /\ UNCHANGED log
    /\ UNCHANGED <<prog, tableVars, sweepVars, argVars, profiles, outVars>>

\* The CSV rows of lines 86-95: one row per key of sorted(vpcs_found).
VPC_csv(d) ==
    LET keys == SortedKeys(d)
    IN  [i \in 1..Len(keys) |->
            <<keys[i], DictGet(d, keys[i]).account_id, DictGet(d, keys[i]).region,
              DictGet(d, keys[i]).cidr, DictGet(d, keys[i]).cidr6>>]

(***************************************************************************)
(* list_s3_buckets.py                                                      *)
(***************************************************************************)
\* Buckets list_buckets may return, and what get_bucket_location may answer
\* for one: an error, no LocationConstraint, or a region.
Buckets == {"bucket-a", "bucket-b"}

BucketLists3 == UNION {[1..k -> Buckets] : k \in 0..MaxItems}

Locations == {"<raises>", PyNone, "us-west-2"}

\* Lines 48-55: the region recorded for a bucket.
location(answer) ==
    IF answer = "<raises>" THEN ""
    ELSE IF answer = PyNone \/ answer = "" THEN "us-east-1"
    ELSE answer

\* Line 56: the key is bucket['Name'].
S3_key(Name, acct, region) == Name

\* Lines 47-59 for the buckets of one response, in order.
RECURSIVE S3_store(_, _, _, _)
S3_store(d, names, answers, acct) ==
    IF names = <<>> THEN d
    ELSE S3_store(DictSet(d, S3_key(Head(names), acct, location(Head(answers))),
                          [account_id |-> acct, region |-> location(Head(answers))]),
                  Tail(names), Tail(answers), acct)

S3_Init ==
    /\ prog = "s3"
    /\ Lister_Init
    /\ regions = <<>>
    /\ outfile = "bucket_list.out"
    /\ outputformat \in {"CSV", "JSON"}
    /\ dry_run \in BOOLEAN

\* main, lines 26-59: one profile.  The session, the account number and
\* list_buckets have their own try; the two clients are created outside any.
S3_Profile ==
    /\ prog = "s3"
    /\ pc = "profile"
    /\ pidx <= Len(profiles)
    /\ LET l1 == NoteLogged("info", "Processing profile")
           c1 == NoteCalled("Session", "profile", TRUE)
           c2 == NoteCall(NoteCall(c1, "client", "sts", TRUE), "client", "s3", TRUE)
       IN  \/ /\ remote' = NoteCalled("Session", "profile", FALSE)
              /\ log' = NoteLog(l1, "error", "Failed to create session for profile")
              /\ pidx' = pidx + 1
              /\ UNCHANGED <<pc, acct_num, found, returned>>
              /\ context' = "clean"
           \/ /\ \E kind \in {"sts", "s3"} :
                    remote' = IF kind = "sts"
                              THEN NoteCall(c1, "client", "sts", FALSE)
                              ELSE NoteCall(NoteCall(c1, "client", "sts", TRUE),
                                           "client", "s3", FALSE)
              /\ log' = l1
              /\ pc' = "raised"
              /\ UNCHANGED <<pidx, acct_num, found, returned>>
              /\ context' = "clean"
           \/ /\ remote' = NoteCall(c2, "get_caller_identity", "sts", FALSE)
              /\ log' = NoteLog(l1, "error", "Failed to get account ID for profile")
              /\ context' = "lookup_failed"
              /\ pidx' = pidx + 1
              /\ UNCHANGED <<pc, acct_num, found, returned>>
           \/ /\ remote' = NoteCall(NoteCall(c2, "get_caller_identity", "sts", TRUE),
                                   "list_buckets", "profile", FALSE)
              /\ acct_num' = AccountOf(profiles[pidx])
              /\ log' = NoteLog(l1, "error", "exception")
              /\ pidx' = pidx + 1
              /\ UNCHANGED <<pc, found, returned>>
              /\ context' = "clean"
           \/ /\ acct_num' = AccountOf(profiles[pidx])
              /\ \E names \in BucketLists3 :
                 \E answers \in [1..Len(names) -> Locations] :
                    LET new == {<<names[i], acct_num', location(answers[i])>> :
                                    i \in 1..Len(names)}
                        RECURSIVE Located(_, _)
                        Located(bag, i) ==
                            IF i > Len(names) THEN bag
                            ELSE Located(NoteCall(bag, "get_bucket_location", "bucket",
                                                 answers[i] # "<raises>"), i + 1)
                    IN  /\ WithinCap(new)
                        /\ returned' = returned \cup new
                        /\ found' = S3_store(found, names, answers, acct_num')
                        /\ remote' = Located(
                              NoteCall(NoteCall(c2, "get_caller_identity", "sts", TRUE),
                                      "list_buckets", "profile", TRUE), 1)
              /\ log' = l1
              /\ pidx' = pidx + 1
              /\ UNCHANGED pc
              /\ context' = "clean"
    /\ UNCHANGED <<prog, tableVars, sweepVars, argVars, profiles, ridx, outVars>>

\* The CSV rows of lines 79-86: one row per key of sorted(buckets_found).
S3_csv(d) ==
    LET keys == SortedKeys(d)
    IN  [i \in 1..Len(keys) |->
            <<keys[i], DictGet(d, keys[i]).account_id, DictGet(d, keys[i]).region>>]

(***************************************************************************)
(* lambda_runtime_lister.py                                                *)
(***************************************************************************)
Lambda_regions == <<"us-east-1", "us-east-2", "us-west-2">>

\* Functions list_functions may return; a container-image function has no Runtime.
Functions ==
    { [FunctionName |-> "fn-report", Runtime |-> "python3.12"],
      [FunctionName |-> "fn-image"] }

FunctionPages == UNION {[1..k -> Functions] : k \in 0..MaxItems}

\* Lines 88-92 for the functions of one page: a row is appended, and a
\* function a field of which is missing is passed over.
RECURSIVE Lambda_store(_, _, _, _)
Lambda_store(rows, fns, acct, region) ==
    IF fns = <<>> THEN rows
    ELSE Lambda_store(
            IF {"FunctionName", "Runtime"} \subseteq DOMAIN Head(fns)
            THEN Append(rows, <<acct, Head(fns).FunctionName, Head(fns).Runtime, region>>)
            ELSE rows,
            Tail(fns), acct, region)

Lambda_Init ==
    /\ prog = "lambda"
    /\ Lister_Init
    /\ regions = Lambda_regions
    /\ outfile \in {"", "functions.csv"}
    /\ outputformat = "CSV"
    /\ dry_run = FALSE

\* main, lines 67-80: the session and the account number have their own try;
\* the sts client is created outside any.
Lambda_Profile ==
    /\ prog = "lambda"
    /\ pc = "profile"
    /\ pidx <= Len(profiles)
    /\ LET l1 == NoteLogged("info", "Processing profile")
           c1 == NoteCalled("Session", "profile", TRUE)
       IN  \/ /\ remote' = NoteCalled("Session", "profile", FALSE)
              /\ log' = NoteLog(l1, "error", "Failed to create session for profile")
              /\ pidx' = pidx + 1
              /\ UNCHANGED <<pc, ridx, acct_num>>
              /\ context' = "clean"
           \/ /\ remote' = NoteCall(c1, "client", "sts", FALSE)
              /\ log' = l1
              /\ pc' = "raised"
              /\ UNCHANGED <<pidx, ridx, acct_num>>
              /\ context' = "clean"
           \/ /\ remote' = NoteCall(NoteCall(c1, "client", "sts", TRUE),
                                   "get_caller_identity", "sts", FALSE)
              /\ log' = NoteLog(l1, "error", "Failed to get account ID for profile")
              /\ context' = "lookup_failed"
              /\ pidx' = pidx + 1
              /\ UNCHANGED <<pc, ridx, acct_num>>
           \/ /\ remote' = NoteCall(NoteCall(c1, "client", "sts", TRUE),
                                   "get_caller_identity", "sts", TRUE)
              /\ acct_num' = AccountOf(profiles[pidx])
              /\ log' = l1
              /\ pc' = "region"
              /\ ridx' = 1
              /\ UNCHANGED pidx
              /\ context' = "clean"
    /\ UNCHANGED <<prog, tableVars, sweepVars, argVars, profiles, found, returned, outVars>>

\* main, lines 82-85: the Lambda client and the paginator of one region,
\* both outside any try.
Lambda_Cell ==
    /\ prog = "lambda"
    /\ pc = "region"
    /\ \/ /\ remote' = NoteCalled("client", "lambda", FALSE)
          /\ pc' = "raised"
       \/ /\ remote' = NoteCall(NoteCalled("client", "lambda", TRUE),
                               "get_paginator", "list_functions", FALSE)
          /\ pc' = "raised"
       \/ /\ remote' = NoteCall(NoteCalled("client", "lambda", TRUE),
                               "get_paginator", "list_functions", TRUE)
          /\ pc' = "pages"
    /\ UNCHANGED <<prog, tableVars, log, sweepVars, listVars>>

\* main, lines 87-92: the next page of paginator.paginate(), outside any try.
Lambda_NextPage ==
    /\ prog = "lambda"
    /\ pc = "pages"
    /\ \/ /\ CallCount("list_functions", "page", TRUE) < MaxPages
          /\ \E fns \in FunctionPages :
                /\ found' = Lambda_store(found, fns, acct_num, regions[ridx])
                /\ returned' = returned \cup
                      {<<fns[i].FunctionName, acct_num, regions[ridx]>> : i \in 1..Len(fns)}
          /\ remote' = Called("list_functions", "page", TRUE)
          /\ UNCHANGED <<pc, pidx, ridx>>
       \/ /\ NextRegion
          /\ UNCHANGED <<remote, found, returned>>
       \/ /\ remote' = NoteCalled("list_functions", "page", FALSE)
          /\ pc' = "raised"
          /\ UNCHANGED <<pidx, ridx, found, returned>>
    /\ UNCHANGED <<prog, tableVars, log, sweepVars, argVars, context, profiles, acct_num, outVars>>

(***************************************************************************)
(* ssm_disable_public_doc.py                                               *)
(***************************************************************************)
SSM_Init ==
    /\ prog = "ssm"
    /\ Lister_Init
    /\ regions \in RegionLists
    /\ outfile = ""
    /\ outputformat = "CSV"
    /\ dry_run = FALSE

\* __main__, lines 78-89: the regions are checked, then main is called.
SSM_Start ==
    /\ prog = "ssm"
    /\ pc = "start"
    /\ IF invalid_regions(regions) # <<>>
       THEN /\ log' = Logged("error", "Invalid region(s) specified", 0, 0,
                             invalid_regions(regions))
            /\ pc' = "exit1"
       ELSE /\ pc' = "main"
            /\ UNCHANGED log
    /\ UNCHANGED <<prog, tableVars, remote, sweepVars, listVars>>

\* main, lines 18-21.
SSM_Main ==
    /\ prog = "ssm"
    /\ pc = "main"
    /\ log' = Logged("info", "Setting regions", 0, 0, regions)
    /\ ResolveProfiles
    /\ pidx' = 1
    /\ pc' = "profile"
    /\ UNCHANGED <<prog, tableVars, remote, sweepVars, argVars, context, ridx, acct_num, found, returned, outVars>>

\* main, lines 23-29.
SSM_Session ==
    /\ prog = "ssm"
    /\ Lister_Session(FALSE)

\* main, lines 31-47: one (profile, region); the client and the setting
\* each have their own try.
SSM_Cell ==
    /\ prog = "ssm"
    /\ pc = "region"
    /\ \/ /\ remote' = NoteCalled("client", "ssm", FALSE)
          /\ log' = NoteLogged("error", "Cannot set session in")
       \/ /\ remote' = NoteCall(NoteCalled("client", "ssm", TRUE),
                               "update_service_setting", "region", FALSE)
          /\ log' = NoteLogged("error", "Cannot set permission in")
       \/ /\ remote' = NoteCall(NoteCalled("client", "ssm", TRUE),
                               "update_service_setting", "region", TRUE)
          /\ log' = NoteLogged("info", "Set permission to disabled in")
    /\ NextRegion
    /\ UNCHANGED <<prog, tableVars, sweepVars, argVars, context, profiles, acct_num, found, returned, outVars>>

\* main returns after the last profile.
SSM_Return ==
    /\ prog = "ssm"
    /\ pc = "profile"
    /\ pidx > Len(profiles)
    /\ pc' = "done"
    /\ UNCHANGED <<prog, tableVars, log, remote, sweepVars, listVars>>

(***************************************************************************)
(* The listers' other steps: the start, the empty check, the output.       *)
(***************************************************************************)
\* __main__ of the VPC, S3 and Lambda listers: the Lambda lister validates
\* the output path only when --output is given.
Lister_Start ==
    /\ prog \in {"vpc", "s3", "lambda"}
    /\ pc = "start"
    /\ pc' = IF prog = "lambda" /\ outfile = "" THEN "main" ELSE "validate_output_path"
    /\ UNCHANGED <<prog, tableVars, log, remote, sweepVars, listVars>>

\* The first lines of main in the VPC, S3 and Lambda listers.
Lister_Main ==
    /\ prog \in {"vpc", "s3", "lambda"}
    /\ pc = "main"
    /\ found' = <<>>
    /\ ResolveProfiles
    /\ pidx' = 1
    /\ pc' = "profile"
    /\ UNCHANGED <<prog, tableVars, log, remote, sweepVars, argVars, context, ridx, acct_num, returned, outVars>>

Noun == CASE prog = "ec2" -> "instances" [] prog = "vpc" -> "VPCs"
          [] prog = "s3" -> "buckets" [] OTHER -> "functions"

\* After the loops of the EC2, VPC and S3 listers: an empty collection is
\* warned about and main returns.
Lister_CheckEmpty ==
    /\ prog \in {"ec2", "vpc", "s3"}
    /\ pc = "profile"
    /\ pidx > Len(profiles)
    /\ IF found = <<>>
       THEN /\ log' = Logged("warning", "Nothing found across selected profiles", 0, 0,
                             <<Noun>>)
            /\ pc' = "done"
       ELSE /\ pc' = "output"
            /\ UNCHANGED log
    /\ UNCHANGED <<prog, tableVars, remote, sweepVars, listVars>>

Document(format, header, body) == [format |-> format, header |-> header, body |-> body]

\* json.dumps(found, indent=4): the dict's entries in the dict's order.
JsonDocument(d) == Document("JSON", "", d)

\* The rows written with csv.writer.
CsvDocument(d) ==
    CASE prog = "ec2" ->
            Document("CSV",
                "InstanceID,Name,Account,Type,State,AZ,PrivateIP,PublicIP,VPC,Subnet,ENIs",
                EC2_csv(d))
      [] prog = "vpc" -> Document("CSV", "VpcId,AccountId,Region,CIDR,CIDR6", VPC_csv(d))
      [] prog = "s3" -> Document("CSV", "BucketName,AccountId,Region", S3_csv(d))
      [] OTHER -> Document("CSV", "Account,Function Name,Runtime,Region", d)

\* The table of a dry run: format_table_data walks sorted(found.items()), so
\* its rows are in key order.
TableDocument(d) == Document("table", "", SortedKeys(d))

\* The dry-run branch of the EC2, VPC and S3 listers: the JSON branch prints
\* and goes on to the statements after the if; the table branch prints and
\* returns.
Lister_DryRun ==
    /\ prog \in {"ec2", "vpc", "s3"}
    /\ pc = "output"
    /\ dry_run
    /\ IF outputformat = "JSON"
       THEN /\ console' = Append(console, JsonDocument(found))
            /\ pc' = "write"
       ELSE /\ console' = Append(console, TableDocument(found))
            /\ pc' = "done"
    /\ UNCHANGED <<prog, tableVars, log, remote, sweepVars, argVars, loopVars, found, returned, fs>>

\* A write step whose success message is in a finally clause: it is logged
\* after a failure too.
WriteFile_finally(document) ==
    \/ /\ fs' = [fs EXCEPT !.opens = @ + 1]
       /\ log' = AddLog(Logged("error", "Failed to write", 0, 0, <<outfile>>),
                        "info", "Wrote", Len(found), 0, <<Noun, outfile>>)
    \/ /\ fs' = [opens |-> fs.opens + 1, exists |-> TRUE, doc |-> Document("", "", <<>>)]
       /\ log' = AddLog(Logged("error", "Failed to write", 0, 0, <<outfile>>),
                        "info", "Wrote", Len(found), 0, <<Noun, outfile>>)
    \/ /\ fs' = [opens |-> fs.opens + 1, exists |-> TRUE, doc |-> document]
       /\ log' = Logged("info", "Wrote", Len(found), 0, <<Noun, outfile>>)

\* with Path(outfile).open('w') as f: ..., in try / except Exception / else.
\* The open may fail; the write may fail after the open created the file.
WriteFile(document) ==
    \/ /\ fs' = [fs EXCEPT !.opens = @ + 1]
       /\ log' = Logged("error", "Failed to write", 0, 0, <<outfile>>)
    \/ /\ fs' = [opens |-> fs.opens + 1, exists |-> TRUE, doc |-> Document("", "", <<>>)]
       /\ log' = Logged("error", "Failed to write", 0, 0, <<outfile>>)
    \/ /\ fs' = [opens |-> fs.opens + 1, exists |-> TRUE, doc |-> document]
       /\ log' = Logged("info", "Wrote", Len(found), 0, <<Noun, outfile>>)

\* The file-writing step of the EC2, VPC and S3 listers.
Lister_Write ==
    /\ prog \in {"ec2", "vpc", "s3"}
    /\ \/ pc = "output" /\ ~dry_run
       \/ pc = "write"
    /\ WriteFile(IF outputformat = "CSV" THEN CsvDocument(found) ELSE JsonDocument(found))
    /\ pc' = "done"
    /\ UNCHANGED <<prog, tableVars, remote, sweepVars, argVars, loopVars, found, returned, console>>

\* main of the Lambda lister, lines 94-109: the console without --output,
\* the CSV file with it.
Lambda_Output ==
    /\ prog = "lambda"
    /\ pc = "profile"
    /\ pidx > Len(profiles)
    /\ IF outfile = ""
       THEN /\ console' = Append(console, Document("table", "Account Function Name Runtime", found))
            /\ UNCHANGED <<log, fs>>
       ELSE /\ WriteFile(CsvDocument(found))
            /\ UNCHANGED console
    /\ pc' = "done"
    /\ UNCHANGED <<prog, tableVars, remote, sweepVars, argVars, loopVars, found, returned>>

(***************************************************************************)
(* format_table_data (the same in the EC2, VPC and S3 listers), on one     *)
(* field.  A str is a sequence of characters.                              *)
(***************************************************************************)
Characters == {"a", "b", " "}

Texts == UNION {[1..n -> Characters] : n \in 0..MaxLen}

\* Lines 187-190: max_name = int(max_width * 0.5), max_account =
\* int(max_width * 0.3), max_region = int(max_width * 0.2).
Columns == {5, 3, 2}

max_column(width, tenths) == (width * tenths) \div 10

\* value[:stop]; a negative stop counts from the end.
SliceTo(value, stop) ==
    IF stop >= 0
    THEN SubSeq(value, 1, IF stop < Len(value) THEN stop ELSE Len(value))
    ELSE SubSeq(value, 1, IF Len(value) + stop > 0 THEN Len(value) + stop ELSE 0)

\* Lines 200-201: if len(name) > max_name: name = name[:max_name - 3] + "..."
truncate(value, budget) ==
    IF Len(value) > budget
    THEN SliceTo(value, budget - 3) \o <<".", ".", ".">>
    ELSE value

\* chunk.strip() == ''
IsBlank(chunk) == \A i \in 1..Len(chunk) : chunk[i] = " "

\* Length of the first run of value: characters that are all whitespace or
\* all not.
RunLen(value) ==
    CHOOSE k \in 1..Len(value) :
        /\ \A i \in 1..k : (value[i] = " ") = (value[1] = " ")
        /\ k = Len(value) \/ (value[k + 1] = " ") # (value[1] = " ")

\* TextWrapper._split on letters and spaces: the words and the runs of
\* whitespace between them, in order.
RECURSIVE split_chunks(_)
split_chunks(value) ==
    IF value = <<>>
    THEN <<>>
    ELSE <<SubSeq(value, 1, RunLen(value))>>
            \o split_chunks(SubSeq(value, RunLen(value) + 1, Len(value)))

RECURSIVE Concat(_)
Concat(chunks) == IF chunks = <<>> THEN <<>> ELSE Head(chunks) \o Concat(Tail(chunks))

\* How many of the first chunks fit in one line of the width.
Fitting(chunks, width) ==
    CHOOSE n \in 0..Len(chunks) :
        /\ Len(Concat(SubSeq(chunks, 1, n))) <= width
        /\ n = Len(chunks) \/ Len(Concat(SubSeq(chunks, 1, n + 1))) > width

\* TextWrapper._wrap_chunks with the defaults (drop_whitespace,
\* break_long_words): one pass of its outer loop builds one line.
RECURSIVE wrap_chunks(_, _, _)
wrap_chunks(chunks, width, lines) ==
    IF chunks = <<>>
    THEN lines
    ELSE LET \* whitespace that would start a line is dropped, but not at
             \* the very beginning of the text
             kept == IF IsBlank(Head(chunks)) /\ lines # <<>> THEN Tail(chunks) ELSE chunks
             n == Fitting(kept, width)
             fitted == SubSeq(kept, 1, n)
             left == SubSeq(kept, n + 1, Len(kept))
             \* _handle_long_word: the next chunk fits on no line, so as
             \* much of it as there is room for goes on this one
             long == left # <<>> /\ Len(Head(left)) > width
             space_left == width - Len(Concat(fitted))
             cur_line == IF long
                         THEN Append(fitted, SubSeq(Head(left), 1, space_left))
                         ELSE fitted
             rest == IF long
                     THEN <<SubSeq(Head(left), space_left + 1, Len(Head(left)))>> \o Tail(left)
                     ELSE left
             \* whitespace that would end the line is dropped
             line == IF cur_line # <<>> /\ IsBlank(cur_line[Len(cur_line)])
                     THEN SubSeq(cur_line, 1, Len(cur_line) - 1)
                     ELSE cur_line
         IN  wrap_chunks(rest, width, IF line # <<>> THEN Append(lines, Concat(line)) ELSE lines)

\* textwrap.wrap(value, width=width), for a width textwrap accepts.
textwrap_wrap(value, width) == wrap_chunks(split_chunks(value), width, <<>>)

\* "\n".join(lines)
RECURSIVE join(_)
join(lines) ==
    IF lines = <<>> THEN <<>>
    ELSE IF Len(lines) = 1 THEN lines[1]
    ELSE lines[1] \o <<"\n">> \o join(Tail(lines))

Table_Idle ==
    /\ max_width = 80
    /\ wrap = FALSE
    /\ column = 5
    /\ text = <<>>
    /\ cell = <<>>

Table_Init ==
    /\ prog = "table"
    /\ pc = "call"
    /\ max_width \in 1..MaxWidth    \* shutil.get_terminal_size: at least one column
    /\ wrap \in BOOLEAN
    /\ column \in Columns
    /\ text \in Texts
    /\ cell = <<>>

\* Lines 198-215 for one field of one row.  textwrap.wrap raises ValueError
\* for a width that is not positive.
format_table_data ==
    /\ prog = "table"
    /\ pc = "call"
    /\ IF ~wrap
       THEN /\ cell' = truncate(text, max_column(max_width, column))
            /\ pc' = "returned"
       ELSE IF max_column(max_width, column) <= 0
            THEN /\ pc' = "raised"
                 /\ UNCHANGED cell
            ELSE /\ cell' = join(textwrap_wrap(text, max_column(max_width, column)))
                 /\ pc' = "returned"
    /\ UNCHANGED <<prog, log, remote, sweepVars, listVars, max_width, wrap, column, text>>

(***************************************************************************)
(* The specifications: Spec is one run of a lister or of the SSM script,   *)
(* SweepSpec one run of s3_valkyrie.                                       *)
(***************************************************************************)
Init ==
    /\ log = EmptyBag
    /\ remote = EmptyBag
    /\ Sweep_Idle
    /\ Table_Idle
    /\ \/ EC2_Init
       \/ VPC_Init
       \/ S3_Init
       \/ Lambda_Init
       \/ SSM_Init

Next ==
    \/ validate_output_path
    \/ EC2_Start
    \/ EC2_Main
    \/ EC2_Session
    \/ EC2_Cell
    \/ EC2_NextPage
    \/ VPC_Session
    \/ VPC_Cell
    \/ S3_Profile
    \/ Lambda_Profile
    \/ Lambda_Cell
    \/ Lambda_NextPage
    \/ Lambda_Output
    \/ SSM_Start
    \/ SSM_Main
    \/ SSM_Session
    \/ SSM_Cell
    \/ SSM_Return
    \/ Lister_Start
    \/ Lister_Main
    \/ Lister_CheckEmpty
    \/ Lister_DryRun
    \/ Lister_Write

Spec == Init /\ [][Next]_vars

SweepInit ==
    /\ log = EmptyBag
    /\ remote = EmptyBag
    /\ Lister_Idle
    /\ Table_Idle
    /\ Sweep_Init

SweepNext ==
    \/ confirm_destruction_via_valkyrie
    \/ Sweep_Session
    \/ Sweep_Paginate
    \/ Sweep_NextPage
    \/ Sweep_Version
    \/ Sweep_Marker
    \/ Sweep_EndPage
    \/ Sweep_Summary

SweepSpec == SweepInit /\ [][SweepNext]_vars

TableInit ==
    /\ log = EmptyBag
    /\ remote = EmptyBag
    /\ Sweep_Idle
    /\ Lister_Idle
    /\ Table_Init

TableNext == format_table_data

TableSpec == TableInit /\ [][TableNext]_vars

(***************************************************************************)
(* Properties of the runs.                                                 *)
(***************************************************************************)
Listers == {"ec2", "vpc", "s3", "lambda"}

Range(seq) == {seq[i] : i \in 1..Len(seq)}

\* The record of the triple t = <<native id, account, region>> is in the
\* result collection.
Holds(t) ==
    CASE prog = "ec2" ->
            \E i \in 1..Len(found) :
                /\ found[i].key = EC2_key(t[1], t[2], t[3])
                /\ found[i].value.instance_id = t[1]
                /\ found[i].value.account = t[2]
      [] prog \in {"vpc", "s3"} ->
            \E i \in 1..Len(found) :
                /\ found[i].key = t[1]
                /\ found[i].value.account_id = t[2]
                /\ found[i].value.region = t[3]
      [] OTHER ->
            \E i \in 1..Len(found) :
                found[i][1] = t[2] /\ found[i][2] = t[1] /\ found[i][4] = t[3]

\* The key main stores the record of the triple t under.
KeyOf(t) ==
    CASE prog = "ec2" -> EC2_key(t[1], t[2], t[3])
      [] prog = "vpc" -> VPC_key(t[1], t[2], t[3])
      [] OTHER -> S3_key(t[1], t[2], t[3])

\* C1: in the EC2, S3 and VPC listers, a run with dry_run set never opens or
\* writes the output file, whatever the output format.
C1_DryRunWritesNoFile ==
    (prog \in {"ec2", "vpc", "s3"} /\ dry_run) => (fs.opens = 0 /\ ~fs.exists)

\* C2: in the EC2, VPC and Lambda listers no step of a cell (client
\* creation, account lookup, listing call) ends the run with an exception,
\* and once the grid loop has ended every record the listing calls returned
\* is in the result collection.
C2_FailureIsolation ==
    /\ []((prog \in {"ec2", "vpc", "lambda"} /\ pc \in {"output", "write", "done"})
            => \A t \in returned : Holds(t))
    /\ [][(prog \in {"ec2", "vpc", "lambda"} /\ pc \in {"region", "pages"})
            => pc' # "raised"]_vars

\* C3: with DRY_RUN true the sweeper never calls delete_object and both
\* counters are 0 in every state; the summary reports 0 and 0.
C3_DryRunNeverDeletes ==
    (prog = "sweep" /\ DRY_RUN) =>
        /\ \A c \in BagToSet(remote) : c.op # "delete_object"
        /\ deleted.objects = 0
        /\ deleted.markers = 0
        /\ \A r \in BagToSet(log) :
              r.msg = "Deleted objects and removed delete markers" => (r.n = 0 /\ r.m = 0)

C3_Witness ==
    /\ prog = "sweep"
    /\ DRY_RUN
    /\ pc = "done"
    /\ listed.objects >= 1
    /\ listed.markers >= 1
    /\ LogCount("info", "Deleted objects and removed delete markers") = 1

\* The entries of items are those of requested that are not valid regions,
\* in the order of requested.
IsInvalidSublist(items, requested) ==
    \E f \in [1..Len(items) -> 1..Len(requested)] :
        /\ \A i, j \in 1..Len(items) : i < j => f[i] < f[j]
        /\ \A i \in 1..Len(items) : requested[f[i]] = items[i]
        /\ {f[i] : i \in 1..Len(items)}
              = {j \in 1..Len(requested) : requested[j] \notin VALID_REGIONS}

\* C4: in the EC2 lister and the SSM script, when a requested region is not
\* in VALID_REGIONS the run logs one error that lists exactly the invalid
\* regions in request order, exits with status 1, and has made no session,
\* client or remote call; when all are valid nothing is reported.
C4_RegionValidation ==
    (prog \in {"ec2", "ssm"} /\ pc # "start") =>
        LET reports == {r \in BagToSet(log) : r.msg = "Invalid region(s) specified"}
        IN  IF Range(regions) \subseteq VALID_REGIONS
            THEN reports = {}
            ELSE /\ pc = "exit1"
                 /\ remote = EmptyBag
                 /\ LogCount("error", "Invalid region(s) specified") = 1
                 /\ \A r \in reports : IsInvalidSublist(r.items, regions)

C4_Witness ==
    /\ prog = "ec2"
    /\ pc = "exit1"
    /\ regions = <<"moon-2", "mars-1">>
    /\ BagIn(LogRecord("error", "Invalid region(s) specified", 0, 0, <<"moon-2", "mars-1">>),
             log)

\* C5: in every lister, while the collection is empty no output file has
\* been opened or created.
C5_EmptyCollectionWritesNoFile ==
    (prog \in Listers /\ found = <<>>) => (fs.opens = 0 /\ ~fs.exists)

\* C6: in the EC2, VPC and S3 listers two records with different (native
\* identifier, account, region) are never stored under the same key.
C6_KeysNeverCollide ==
    prog \in {"ec2", "vpc", "s3"} =>
        \A t1, t2 \in returned : t1 # t2 => KeyOf(t1) # KeyOf(t2)

\* C7: in the EC2 lister an error raised while the pages of a cell are
\* iterated does not end the run.
C7_PageErrorEndsOnlyCell ==
    (prog = "ec2" /\ BagIn(Call("describe_instances", "page", FALSE), remote))
        => pc # "raised"

\* C8: in every lister, a run that reached the file-writing step has logged
\* exactly one of 'Failed to write' and 'Wrote', 'Wrote' only with the
\* document in the file, and main has returned.
C8_WriteLogsExactlyOne ==
    prog \in Listers =>
        LET failed == LogCount("error", "Failed to write")
            wrote == LogCount("info", "Wrote")
        IN  /\ failed + wrote = fs.opens
            /\ fs.opens <= 1
            /\ wrote = 1 => (fs.exists /\ Len(fs.doc.body) = Len(found))
            /\ fs.opens = 1 => pc = "done"

C8_Witness ==
    /\ prog = "vpc"
    /\ pc = "done"
    /\ fs.opens = 1
    /\ fs.exists
    /\ fs.doc.body = <<>>
    /\ LogCount("error", "Failed to write") = 1
    /\ LogCount("info", "Wrote") = 0

\* Entries of the page being processed that the loops have not reached yet.
PendingVersions == IF pc = "versions" THEN Len(page.Versions) - (vi - 1) ELSE 0

PendingMarkers == IF pc = "versions" THEN Len(page.DeleteMarkers) - (mi - 1) ELSE 0

\* C9: with DRY_RUN false each counter equals the number of delete_object
\* calls of its kind that returned; every version and marker listed so far,
\* but for those of the current page not reached yet, has been attempted,
\* whatever failed before; and the counters never decrease.
C9_CountersCountConfirmedDeletes ==
    /\ []((prog = "sweep" /\ ~DRY_RUN) =>
            /\ deleted.objects = CallCount("delete_object", "version", TRUE)
            /\ deleted.markers = CallCount("delete_object", "marker", TRUE)
            /\ CallCount("delete_object", "version", TRUE)
                 + CallCount("delete_object", "version", FALSE)
                 = listed.objects - PendingVersions
            /\ CallCount("delete_object", "marker", TRUE)
                 + CallCount("delete_object", "marker", FALSE)
                 = listed.markers - PendingMarkers)
    /\ [][/\ deleted'.objects >= deleted.objects
          /\ deleted'.markers >= deleted.markers]_vars

C9_Witness ==
    /\ prog = "sweep"
    /\ ~DRY_RUN
    /\ pc = "done"
    /\ CallCount("delete_object", "version", FALSE) = 1
    /\ CallCount("delete_object", "version", TRUE) = 1
    /\ CallCount("delete_object", "marker", FALSE) = 1
    /\ CallCount("delete_object", "marker", TRUE) = 1
    /\ deleted = [objects |-> 1, markers |-> 1]

\* Units whose paginate() has been called.
UnitsPaginated == CallCount("paginate", "unit", TRUE) + CallCount("paginate", "unit", FALSE)

C11_ConfirmationGate ==
    /\ [](prog = "sweep" =>
            /\ (~DRY_RUN /\ (pc \in {"main", "unit", "page", "versions", "done"}
                              \/ remote # EmptyBag))
                  => user_input = "yes"
            /\ (~DRY_RUN /\ user_input \notin {"yes", NotPrompted})
                  => (pc = "cancelled" /\ remote = EmptyBag)
            /\ DRY_RUN => (user_input = NotPrompted /\ pc # "cancelled"))
    /\ [][(prog = "sweep" /\ DRY_RUN /\ pc = "confirm") => pc' = "main"]_vars

C11_Witness ==
    /\ prog = "sweep"
    /\ ~DRY_RUN
    /\ user_input = "yes"
    /\ CallCount("delete_object", "version", TRUE) = 1

\* C12: the EC2 lister takes the cells of the grid in order, profiles outer
\* and regions inner: a step leaves a cell only for the next region of the
\* same profile or, after the last region, for the first region of the next
\* profile; a profile is passed over only when its session failed; and the
\* empty check, the output step and the end of the run come only after the
\* last cell of the last profile.
C12_GridOrder ==
    /\ []((prog = "ec2" /\ pc \in {"output", "write", "done", "raised"})
            => pidx = Len(profiles) + 1)
    /\ [][(prog = "ec2" /\ pc \in {"profile", "region", "pages"}) =>
            \/ /\ pc = "profile"
               /\ pidx <= Len(profiles)
               /\ \/ pidx' = pidx /\ ridx' = 1 /\ pc' = "region"
                  \/ pidx' = pidx + 1 /\ ridx' = ridx /\ pc' = "profile"
            \/ /\ pc = "profile"
               /\ pidx > Len(profiles)
               /\ pidx' = pidx
               /\ pc' \in {"output", "done"}
            \/ /\ pc \in {"region", "pages"}
               /\ \/ pidx' = pidx /\ ridx' = ridx /\ pc' = "pages"
                  \/ /\ ridx < Len(regions)
                     /\ pidx' = pidx /\ ridx' = ridx + 1 /\ pc' = "region"
                  \/ /\ ridx = Len(regions)
                     /\ pidx' = pidx + 1 /\ ridx' = 1 /\ pc' = "profile"]_vars

\* C13: format_table_data with wrap=False: a field longer than the budget
\* of its column, int(max_width * fraction), comes out no longer than the
\* budget, the ellipsis included.
C13_TruncateWithinBudget ==
    (prog = "table" /\ ~wrap /\ pc = "returned"
        /\ Len(text) > max_column(max_width, column))
      => Len(cell) <= max_column(max_width, column)

\* C14: format_table_data with wrap=True returns for every width, and the
\* cell with its newlines removed is the field it was given.
C14_WrapKeepsCharacters ==
    (prog = "table" /\ wrap /\ pc # "call")
      => (pc = "returned" /\ SelectSeq(cell, LAMBDA c : c # "\n") = text)

\* The keys of a dict are in str order.
KeysInOrder(d) == \A i, j \in 1..Len(d) : i < j => Rank(d[i].key) < Rank(d[j].key)

\* C15: in the EC2, VPC and S3 listers every JSON document, in the file or
\* on the console, lists the records in the str order of their keys.
C15_JsonOrderedByKey ==
    prog \in {"ec2", "vpc", "s3"} =>
        /\ (fs.exists /\ fs.doc.format = "JSON") => KeysInOrder(fs.doc.body)
        /\ \A i \in 1..Len(console) :
              console[i].format = "JSON" => KeysInOrder(console[i].body)

\* The sort key of a CSV row: account, then availability zone (EC2) or
\* region (VPC, S3), then the native identifier.
RowKey(row) ==
    IF prog = "ec2"
    THEN <<row.account, row.az, row.instance_id>>
    ELSE <<row[2], row[3], row[1]>>

\* C16: in the EC2, VPC and S3 listers the CSV file has a header, one data
\* row per record of the collection, and its data rows are in the order of
\* (account, secondary key, native identifier).
C16_CsvSortedByAccount ==
    (prog \in {"ec2", "vpc", "s3"} /\ fs.exists /\ fs.doc.format = "CSV") =>
        /\ fs.doc.header # ""
        /\ Len(fs.doc.body) = Len(found)
        /\ \A i, j \in 1..Len(fs.doc.body) :
              i < j => ~TupleLess(RowKey(fs.doc.body[j]), RowKey(fs.doc.body[i]))

\* The instance describe_instances returned with this id.
InstanceOf(id) == CHOOSE inst \in Instances : inst.InstanceId = id

\* C18: every record of the EC2 lister has the same fields; a field whose
\* native field the instance lacks (name tag, availability zone, private
\* IP, public IP, VPC, subnet) holds 'N/A'; and every instance returned is
\* recorded.
C18_SentinelForMissingFields ==
    prog = "ec2" =>
        /\ \A i \in 1..Len(found) :
              LET record == found[i].value
                  inst == InstanceOf(record.instance_id)
              IN  /\ DOMAIN record = {"instance_id", "instance_name", "account", "type",
                                      "state", "az", "privateipv4", "publicipv4", "vpc",
                                      "subnet", "enis"}
                  /\ "Tags" \notin DOMAIN inst => record.instance_name = "N/A"
                  /\ "Placement" \notin DOMAIN inst => record.az = "N/A"
                  /\ "PrivateIpAddress" \notin DOMAIN inst => record.privateipv4 = "N/A"
                  /\ "PublicIpAddress" \notin DOMAIN inst => record.publicipv4 = "N/A"
                  /\ "VpcId" \notin DOMAIN inst => record.vpc = "N/A"
                  /\ "SubnetId" \notin DOMAIN inst => record.subnet = "N/A"
        /\ \A t \in returned : Holds(t)

\* C17: in the EC2, VPC, S3 and Lambda listers, once the account lookup of
\* a context has failed no listing call is made in that context, and the
\* run goes on with the next context: it is in no cell of the failed
\* context and has not ended with an exception.
C17_LookupFailureSkipsContext ==
    prog \in Listers =>
        /\ context # "listed_after_failure"
        /\ context = "lookup_failed" => pc \notin {"region", "pages", "raised"}

====
